---- MODULE Spec2Model ----
(***************************************************************************)
(* Prefect data pipelines of the footfall / weather project:               *)
(*   api_pipelines/historic.py, forecast.py, holidays.py, api_functions.py *)
(*   footfall_leeds/footfall_leeds.py, footfall_york/footfall_york.py      *)
(*                                                                         *)
(* A pipeline is a flow run_pipeline() that threads one dictionary, the    *)
(* data bus, through an ordered list of tasks (stages).  The warehouse     *)
(* (BigQuery) and the bucket (GCS) are the external state the stages       *)
(* write.  The specifications share the definitions below:                 *)
(*   SpecMerge  repeated runs of the historic flow against one warehouse   *)
(*   SpecExec   one run of any of the five flows, task by task, with       *)
(*              Prefect's retry policy                                     *)
(*   SpecPref   create_preferred_column applied to bounded dataframes      *)
(*   SpecHours  clean_hours applied to bounded hour tokens                 *)
(*   SpecClean  footfall_leeds.clean_df applied to bounded raw dataframes  *)
(*   SpecRows   the weather flows' process_to_df applied to API responses  *)
(*   SpecConfig one historic run under settings with other names           *)
(*   SpecHolidays  holidays.process_to_df applied to bounded API responses *)
(***************************************************************************)
EXTENDS Bags, FiniteSets, Integers, Sequences, TLC

VARIABLES
    hostDst,      \* TRUE: the host's local zone has a clock fold (DST end)
    warehouse,    \* BigQuery: table id -> bag of rows; DOMAIN = existing tables
    bucket,       \* GCS: set of objects [path, content]
    flow_run,     \* SpecMerge: the last finished run of the historic flow
    pipeline,     \* SpecExec: the flow that runs ("none" before it starts)
    flow_state,   \* SpecExec: NotStarted / Running / Completed / Failed
    stage_idx,    \* SpecExec: position of the for loop in pipeline_stages
    task_state,   \* SpecExec: Idle / Running / Raised (the current task run)
    data_bus,     \* SpecExec: run_pipeline's variable data_bus
    world,        \* SpecExec: what the outside world answers in this run
    calls,        \* SpecExec: per stage, number of invocations so far
    received,     \* SpecExec: per stage, the bus the loop called it with
    returned,     \* SpecExec: per stage, the value it returned
    raised,       \* SpecExec: per stage, the error of its last failed attempt
    pf_pc,        \* SpecPref: "args" before the call, "returned" after it
    pf_df,        \* SpecPref: argument df, as passed
    pf_prefs,     \* SpecPref: argument prefered_columns
    pf_new,       \* SpecPref: argument new_column
    pf_out,       \* SpecPref: the value returned
    fn_pc,        \* SpecHours and later: "args" before the call, "returned" after
    fn_in,        \* SpecHours and later: the argument, as passed
    fn_out        \* SpecHours and later: what the call left: err, value

vars == <<hostDst, warehouse, bucket, flow_run, pipeline, flow_state, stage_idx,
          task_state, data_bus, world, calls, received, returned, raised,
          pf_pc, pf_df, pf_prefs, pf_new, pf_out, fn_pc, fn_in, fn_out>>

mergeVars == <<hostDst, warehouse, bucket, flow_run>>
execVars == <<pipeline, flow_state, stage_idx, task_state, data_bus, world,
              calls, received, returned, raised>>
prefVars == <<pf_pc, pf_df, pf_prefs, pf_new, pf_out>>
fnVars == <<fn_pc, fn_in, fn_out>>

(***************************************************************************)
(* Python values                                                           *)
(***************************************************************************)

\* Python's False, as create_preferred_column returns it.
PyFalse == [bool |-> FALSE]

\* Python's None.  A dict is a function from keys to values; None is kept
\* apart from every dict by a key no dict has.
None == [NoneType |-> TRUE]

\* data_bus[key] = value
SetItem(bus, key, value) == (key :> value) @@ bus

\* The exception raised by subscripting bus with every key of keys.
Subscript(bus, keys) ==
    IF bus = None THEN "TypeError"
    ELSE IF keys \subseteq DOMAIN bus THEN "none"
    ELSE "KeyError"

Range(s) == {s[i] : i \in DOMAIN s}

\* The rows of a dataframe as the table a load job makes of them.
SeqToBag(s) == [r \in Range(s) |-> Cardinality({i \in DOMAIN s : s[i] = r})]

RECURSIVE BagSum(_, _)
BagSum(B, S) ==
    IF S = {} THEN 0
    ELSE LET x == CHOOSE y \in S : TRUE IN B[x] + BagSum(B, S \ {x})

\* What a task leaves behind: err "none" and bus the returned value, or the
\* exception raised and bus the dictionary as the failed attempt left it.
Return(bus, wh, bk) == [err |-> "none", bus |-> bus, wh |-> wh, bk |-> bk]
Raise(err, bus, wh, bk) == [err |-> err, bus |-> bus, wh |-> wh, bk |-> bk]

\* if_exists='append' / WRITE_APPEND: the written rows are added to the table.
AppendTable(wh, id, rows) ==
    [t \in DOMAIN wh \cup {id} |->
        IF t # id THEN wh[t] ELSE IF id \in DOMAIN wh THEN wh[id] (+) rows ELSE rows]

\* if_exists='replace' / WRITE_TRUNCATE: the table holds the written rows only.
ReplaceTable(wh, id, rows) ==
    [t \in DOMAIN wh \cup {id} |-> IF t = id THEN rows ELSE wh[t]]

\* blob.upload_from_string: the object at path holds content.
Upload(bk, path, content) ==
    {o \in bk : o.path # path} \cup {[path |-> path, content |-> content]}

(***************************************************************************)
(* Historic weather: inputs                                                *)
(***************************************************************************)

\* Run dates (run_pipeline's date argument after strptime, or yesterday).
Dates == {"2023-07-15", "2023-07-16"}

\* date.strftime('%Y%m%d')
Yyyymmdd(d) ==
    CASE d = "2023-07-15" -> "20230715"
      [] d = "2023-07-16" -> "20230716"

\* Table names are sequences of tokens joined by '_': <<"historic",
\* "20230715">> is historic_20230715.  historic-settings.json as the query
\* text and the task names of historic.py document it.
HistoricSettings ==
    [gcp_project |-> "nwilliams-msc-comp-sci",
     bq_dataset |-> "weather",
     bq_tablename |-> <<"historic">>,
     bq_complete_history |-> <<"historic", "complete">>,
     api_cities |-> <<[city |-> "Leeds", lat |-> "lat", lon |-> "lon"]>>,
     storage_bucket |-> "bucket",
     storage_raw_folder |-> "raw",
     storage_processed_folder |-> "processed",
     schema |-> "schema"]
    @@ ("api-key-secret" :> "secret-name")

\* Epoch hours the history API can report ('dt') and temperatures in
\* hundredths of a kelvin ('main.temp': 293.15 K, 295.21 K).
EpochHours == {0, 1}
Temps == {29315, 29521}

\* The hour at which the host's clock is set back: the epoch hours before it
\* are one hour ahead of the ones from it on.
FoldHour == 1

RECURSIVE SortedSeq(_)
SortedSeq(S) ==
    IF S = {} THEN <<>>
    ELSE LET m == CHOOSE x \in S : \A y \in S : x <= y
         IN <<m>> \o SortedSeq(S \ {m})

\* The 'list' of one API response: hourly entries, one per reported hour, in
\* time order.
ApiLists ==
    UNION {{[i \in DOMAIN SortedSeq(S) |->
                [dt |-> SortedSeq(S)[i], temp |-> t[SortedSeq(S)[i]]]] :
             t \in [S -> Temps]} : S \in SUBSET EpochHours}

Cities(settings) == {settings.api_cities[i].city : i \in DOMAIN settings.api_cities}

\* What the weather API answers for each configured city.
ApiAnswers(settings) == [Cities(settings) -> ApiLists]

(***************************************************************************)
(* api_functions.py                                                        *)
(***************************************************************************)

get_api_key(bus, wh, bk, ext) ==
    IF Subscript(bus, {"gcp_project", "api-key-secret"}) # "none"
    THEN Raise(Subscript(bus, {"gcp_project", "api-key-secret"}), bus, wh, bk)
    ELSE Return(SetItem(bus, "api_key", "secret"), wh, bk)

load_raw_to_bucket(bus, wh, bk, ext) ==
    LET need == {"storage_raw_folder", "storage_bucket", "api_response"} IN
    IF Subscript(bus, need) # "none" THEN Raise(Subscript(bus, need), bus, wh, bk)
    ELSE Return(bus, wh,
                Upload(bk, <<bus.storage_bucket, bus.storage_raw_folder, "timestamp.json">>,
                       "api_response"))

load_df_to_bucket(bus, wh, bk, ext) ==
    LET need == {"storage_processed_folder", "storage_bucket", "df"} IN
    IF Subscript(bus, need) # "none" THEN Raise(Subscript(bus, need), bus, wh, bk)
    ELSE Return(bus, wh,
                Upload(bk, <<bus.storage_bucket, bus.storage_processed_folder, "timestamp.csv">>,
                       "df"))

load_df_to_bigquery(bus, wh, bk, ext) ==
    LET need == {"bq_dataset", "bq_tablename", "df", "gcp_project", "schema"} IN
    IF Subscript(bus, need) # "none" THEN Raise(Subscript(bus, need), bus, wh, bk)
    ELSE Return(bus,
                ReplaceTable(wh, <<bus.gcp_project, bus.bq_dataset, bus.bq_tablename>>,
                             SeqToBag(bus.df)),
                bk)

(***************************************************************************)
(* historic.py                                                             *)
(***************************************************************************)

\* dt.datetime.fromtimestamp(ts): the naive local time of the host.  On a
\* host whose zone sets the clock back, the hour before the fold and the hour
\* after it read the same.
FromTimestamp(ts) == IF hostDst /\ ts < FoldHour THEN ts + 1 ELSE ts

\* round(float(temp) - 273.15, 1), in tenths of a degree.
KelvinToCelsius(temp) == ((temp - 27315) + 5) \div 10

get_data(bus, wh, bk, ext) ==
    IF Subscript(bus, {"api_key", "date"}) # "none"
    THEN Raise(Subscript(bus, {"api_key", "date"}), bus, wh, bk)
    ELSE IF Subscript(bus, {"api_cities"}) # "none"
    THEN Raise("KeyError", SetItem(bus, "api_response", <<>>), wh, bk)
    ELSE Return(SetItem(bus, "api_response",
                        [i \in DOMAIN bus.api_cities |->
                            [city |-> bus.api_cities[i].city,
                             list |-> ext[bus.api_cities[i].city]]]),
                wh, bk)

\* The row with rain and snow only where the entry has them.
HourRowWithoutDefaults(city, hour) ==
    [city |-> city, date |-> FromTimestamp(hour.dt), temp |-> KelvinToCelsius(hour.temp)]
    @@ (IF "rain" \in DOMAIN hour THEN "rain" :> hour.rain["1h"] ELSE <<>>)
    @@ (IF "snow" \in DOMAIN hour THEN "snow" :> hour.snow["1h"] ELSE <<>>)

\* One output row per hourly entry (pressure, humidity, clouds and wind are
\* copied like temp and left out); rain and snow in hundredths of a mm.
HourRow(city, hour) ==
    [city |-> city, date |-> FromTimestamp(hour.dt), temp |-> KelvinToCelsius(hour.temp),
     rain |-> IF "rain" \in DOMAIN hour THEN hour.rain["1h"] ELSE 0,
     snow |-> IF "snow" \in DOMAIN hour THEN hour.snow["1h"] ELSE 0]

\* hour['rain']['1h'] or hour['snow']['1h'] of an entry that has the metric
\* without its '1h' raises KeyError.
HourRaises(hour) ==
    \/ "rain" \in DOMAIN hour /\ "1h" \notin DOMAIN hour.rain
    \/ "snow" \in DOMAIN hour /\ "1h" \notin DOMAIN hour.snow

RECURSIVE RowsList(_, _)
RowsList(api_response, i) ==
    IF i > Len(api_response) THEN <<>>
    ELSE [h \in DOMAIN api_response[i].list |->
             HourRow(api_response[i].city, api_response[i].list[h])]
         \o RowsList(api_response, i + 1)

historic_process_to_df(bus, wh, bk, ext) ==
    IF Subscript(bus, {"api_response"}) # "none"
    THEN Raise(Subscript(bus, {"api_response"}), bus, wh, bk)
    ELSE IF \E i \in DOMAIN bus.api_response :
                \E h \in DOMAIN bus.api_response[i].list :
                    HourRaises(bus.api_response[i].list[h])
    THEN Raise("KeyError", bus, wh, bk)
    ELSE Return(SetItem(bus, "df", RowsList(bus.api_response, 1)), wh, bk)

\* The task without its assignment: the table name stays as configured.
update_tablename_keeps_name(bus, wh, bk, ext) ==
    IF Subscript(bus, {"date", "bq_tablename"}) # "none"
    THEN Raise(Subscript(bus, {"date", "bq_tablename"}), bus, wh, bk)
    ELSE Return(bus, wh, bk)

update_tablename(bus, wh, bk, ext) ==
    IF Subscript(bus, {"date", "bq_tablename"}) # "none"
    THEN Raise(Subscript(bus, {"date", "bq_tablename"}), bus, wh, bk)
    ELSE Return(SetItem(bus, "bq_tablename", bus.bq_tablename \o <<Yyyymmdd(bus.date)>>),
                wh, bk)

\* SQL NULL in a row of the joined table.
NullRow == [city |-> "NULL", date |-> -1, temp |-> -1]

\* The join condition without its date half.
JoinOnCityOnly(historic, latest) == historic.city = latest.city

\* ON historic.city = latest.city AND historic.date = latest.date
JoinOn(historic, latest) == historic.city = latest.city /\ historic.date = latest.date

\* historic LEFT JOIN latest ON ...: every pair that matches, and every
\* historic row without a match once, beside NULLs.
LeftJoin(H, P) ==
    LET matches(h) == {l \in BagToSet(P) : JoinOn(h, l)}
        pairs == UNION {IF matches(h) = {}
                        THEN {[historic |-> h, latest |-> NullRow]}
                        ELSE {[historic |-> h, latest |-> l] : l \in matches(h)} :
                        h \in BagToSet(H)}
    IN [p \in pairs |-> IF p.latest = NullRow THEN H[p.historic]
                        ELSE H[p.historic] * P[p.latest]]

\* WHERE latest.date IS NULL
WhereLatestDateIsNull(J) == [p \in {q \in DOMAIN J : q.latest.date = NullRow.date} |-> J[p]]

\* SELECT historic.*
SelectHistoric(J) ==
    [h \in {p.historic : p \in DOMAIN J} |->
        BagSum(J, {p \in DOMAIN J : p.historic = h})]

\* The query without its join and filter: the dated table appended to the
\* whole history.
MergeQueryAppendsAll(P, H) == P (+) H

\* The query of update_historic_table over the dated table P and the
\* complete history H.
MergeQuery(P, H) == P (+) SelectHistoric(WhereLatestDateIsNull(LeftJoin(H, P)))

\* The tables the query text names.
QueryLatestId(d) == <<"nwilliams-msc-comp-sci", "weather", <<"historic", Yyyymmdd(d)>>>>
QueryHistoricId == <<"nwilliams-msc-comp-sci", "weather", <<"historic", "complete">>>>

\* The function ends without a return statement: it returns None.
update_historic_table(bus, wh, bk, ext) ==
    LET need == {"date", "gcp_project", "bq_dataset", "bq_complete_history"} IN
    IF Subscript(bus, need) # "none" THEN Raise(Subscript(bus, need), bus, wh, bk)
    ELSE IF ~({QueryLatestId(bus.date), QueryHistoricId} \subseteq DOMAIN wh)
    THEN Raise("NotFound", bus, wh, bk)
    ELSE Return(None,
                ReplaceTable(wh, <<bus.gcp_project, bus.bq_dataset, bus.bq_complete_history>>,
                             MergeQuery(wh[QueryLatestId(bus.date)], wh[QueryHistoricId])),
                bk)

(***************************************************************************)
(* forecast.py and holidays.py                                             *)
(***************************************************************************)

ForecastSettings ==
    [gcp_project |-> "nwilliams-msc-comp-sci",
     bq_dataset |-> "weather",
     bq_tablename |-> <<"forecast">>,
     api_cities |-> <<[city |-> "Leeds", lat |-> "lat", lon |-> "lon"]>>,
     storage_bucket |-> "bucket",
     storage_raw_folder |-> "raw",
     storage_processed_folder |-> "processed",
     schema |-> "schema"]
    @@ ("api-key-secret" :> "secret-name")

get_forecast(bus, wh, bk, ext) ==
    IF Subscript(bus, {"api_key", "api_cities"}) # "none"
    THEN Raise(Subscript(bus, {"api_key", "api_cities"}), bus, wh, bk)
    ELSE Return(SetItem(bus, "api_response",
                        [i \in DOMAIN bus.api_cities |->
                            [city |-> bus.api_cities[i].city,
                             list |-> ext[bus.api_cities[i].city]]]),
                wh, bk)

\* One output row per daily entry: float(temp) - 273.15 is not rounded here.
DayRow(city, day) ==
    [city |-> city, date |-> FromTimestamp(day.dt), temp |-> day.temp - 27315,
     rain |-> IF "rain" \in DOMAIN day THEN day.rain ELSE 0,
     snow |-> IF "snow" \in DOMAIN day THEN day.snow ELSE 0]

RECURSIVE ForecastRowsList(_, _)
ForecastRowsList(api_response, i) ==
    IF i > Len(api_response) THEN <<>>
    ELSE [h \in DOMAIN api_response[i].list |->
             DayRow(api_response[i].city, api_response[i].list[h])]
         \o ForecastRowsList(api_response, i + 1)

forecast_process_to_df(bus, wh, bk, ext) ==
    IF Subscript(bus, {"api_response"}) # "none"
    THEN Raise(Subscript(bus, {"api_response"}), bus, wh, bk)
    ELSE Return(SetItem(bus, "df", ForecastRowsList(bus.api_response, 1)), wh, bk)

HolidaysSettings ==
    [gcp_project |-> "nwilliams-msc-comp-sci",
     bq_dataset |-> "weather",
     bq_tablename |-> <<"holidays">>,
     start_year |-> "2023",
     storage_bucket |-> "bucket",
     storage_raw_folder |-> "raw",
     storage_processed_folder |-> "processed",
     schema |-> "schema"]

\* 'counties': null of the holidays API.
NullCounties == {"null"}

\* The yearly responses of the holidays API: one list of public holidays per
\* requested year.
HolidayAnswers ==
    {<< <<[date |-> "2023-03-17", localName |-> "Saint Patrick's Day",
           name |-> "Saint Patrick's Day", counties |-> {"GB-NIR"}],
          [date |-> "2023-05-01", localName |-> "Early May Bank Holiday",
           name |-> "Early May Bank Holiday", counties |-> NullCounties]>>,
        <<[date |-> "2024-08-05", localName |-> "Summer Bank Holiday",
           name |-> "Summer Bank Holiday", counties |-> {"GB-SCT"}],
          [date |-> "2024-08-26", localName |-> "Summer Bank Holiday",
           name |-> "Summer Bank Holiday", counties |-> {"GB-ENG", "GB-WLS"}]>> >>}

retrieve_date(bus, wh, bk, ext) ==
    IF Subscript(bus, {"start_year"}) # "none"
    THEN Raise(Subscript(bus, {"start_year"}), bus, wh, bk)
    ELSE Return(SetItem(bus, "api_response", ext), wh, bk)

\* The filter without its clause for Saint Patrick's Day.
KeepEnglishHoliday(day) ==
    \/ day.counties = NullCounties
    \/ "GB-ENG" \in day.counties

KeepHoliday(day) ==
    \/ day.counties = NullCounties
    \/ "GB-ENG" \in day.counties
    \/ day.name = "Saint Patrick's Day"

HolidayRow(day) == [date |-> day.date, name |-> day.localName]

RECURSIVE HolidayRows(_, _)
HolidayRows(responses, i) ==
    IF i > Len(responses) THEN <<>>
    ELSE LET kept == SelectSeq(responses[i], KeepHoliday)
         IN [k \in DOMAIN kept |-> HolidayRow(kept[k])] \o HolidayRows(responses, i + 1)

holidays_process_to_df(bus, wh, bk, ext) ==
    IF Subscript(bus, {"api_response"}) # "none"
    THEN Raise(Subscript(bus, {"api_response"}), bus, wh, bk)
    ELSE Return(SetItem(bus, "df", HolidayRows(bus.api_response, 1)), wh, bk)

(***************************************************************************)
(* footfall_leeds.py and footfall_york.py                                  *)
(***************************************************************************)

LeedsSettings ==
    [api_url |-> "api_url",
     download_url |-> "download_url",
     exclude_files |-> {},
     local_storage |-> "local",
     gcp_bucket |-> "bucket",
     gcp_bucket_folder_raw |-> "raw",
     gcp_bucket_folder_processed |-> "processed",
     prefered_footfall_columns |-> <<"Count", "InCount">>,
     prefered_location_columns |-> <<"LocationName", "Location">>,
     gcp_project |-> "nwilliams-msc-comp-sci",
     bq_dataset |-> "footfall",
     bq_table |-> <<"leeds">>,
     schema |-> "schema"]

\* Characters of the hour tokens tried, and the longest token.
HourChars == {"0", "4", "5", "9", ":", ".", "a", "\n"}
MaxTokenLen == 5

\* str(x) of a cell of the Hour column, as its sequence of characters.
HourTokens == UNION {[1..n -> HourChars] : n \in 0..MaxTokenLen}

\* [0-9]
IsDigit(c) == c \in {"0", "1", "2", "3", "4", "5", "6", "7", "8", "9"}

\* $ at position i of x: the end of the string, or just before a newline that
\* ends the string.
AtEnd(x, i) == i = Len(x) + 1 \/ (i = Len(x) /\ x[i] = "\n")

\* (?:\.|\:|$) at position i of x
Separator(x, i) == (i <= Len(x) /\ x[i] \in {".", ":"}) \/ AtEnd(x, i)

\* re.search(r"^([0-9]{1,2})(?:\.|\:|$)", x): two digits are tried before one.
ReSearch(x) ==
    IF Len(x) >= 2 /\ IsDigit(x[1]) /\ IsDigit(x[2]) /\ Separator(x, 3)
    THEN [matched |-> TRUE, group |-> SubSeq(x, 1, 2)]
    ELSE IF Len(x) >= 1 /\ IsDigit(x[1]) /\ Separator(x, 2)
    THEN [matched |-> TRUE, group |-> SubSeq(x, 1, 1)]
    ELSE [matched |-> FALSE, group |-> <<>>]

\* rjust that pads nothing.
RjustNothing(s, width, fill) == s

\* s.rjust(width, fill)
Rjust(s, width, fill) ==
    IF Len(s) >= width THEN s ELSE [i \in 1..(width - Len(s)) |-> fill] \o s

\* clean_hours(x), x given as str(x).  None has no attribute group.
clean_hours(x) ==
    IF ~ReSearch(x).matched THEN [err |-> "AttributeError", value |-> None]
    ELSE [err |-> "none",
          value |-> Rjust(ReSearch(x).group, 2, "0") \o <<":", "0", "0", ":", "0", "0">>]

\* pandas' missing value in a column of text or numbers, and in a column of
\* datetimes.  A cell is the text of a csv field: a sequence of strings.
NaN == <<"NaN">>
NaT == <<"NaT">>

\* str(x) of a cell
Str(cell) == IF cell = NaN THEN <<"n", "a", "n">> ELSE cell

\* len(df)
NRows(df) == IF df.columns = <<>> THEN 0 ELSE Len(df.data[df.columns[1]])

\* The rows of df as records, in index order.
FrameRows(df) == [i \in 1..NRows(df) |-> [c \in Range(df.columns) |-> df.data[c][i]]]

\* df[name] = column: in place when the column exists, else appended.
SetColumn(df, name, column) ==
    [columns |-> IF name \in Range(df.columns) THEN df.columns
                 ELSE Append(df.columns, name),
     data |-> (name :> column) @@ df.data]

\* for source in prefered_columns: if source in list(df.columns): ... return df
RECURSIVE PreferredFrom(_, _, _, _)
PreferredFrom(df, prefered_columns, new_column, i) ==
    IF i > Len(prefered_columns) THEN PyFalse
    ELSE IF prefered_columns[i] \in Range(df.columns)
    THEN SetColumn(df, new_column, df.data[prefered_columns[i]])
    ELSE PreferredFrom(df, prefered_columns, new_column, i + 1)

\* The loop without its return: the last preferred column present wins.
RECURSIVE PreferredLastFrom(_, _, _, _)
PreferredLastFrom(df, prefered_columns, new_column, i) ==
    IF i < 1 THEN PyFalse
    ELSE IF prefered_columns[i] \in Range(df.columns)
    THEN SetColumn(df, new_column, df.data[prefered_columns[i]])
    ELSE PreferredLastFrom(df, prefered_columns, new_column, i - 1)

create_preferred_column_last_wins(df, prefered_columns, new_column) ==
    PreferredLastFrom(df, prefered_columns, new_column, Len(prefered_columns))

\* A column of missing values when no preferred column is found.
create_preferred_column_or_nan(df, prefered_columns, new_column) ==
    IF PreferredFrom(df, prefered_columns, new_column, 1) # PyFalse
    THEN PreferredFrom(df, prefered_columns, new_column, 1)
    ELSE SetColumn(df, new_column, [i \in 1..NRows(df) |-> NaN])

create_preferred_column(df, prefered_columns, new_column) ==
    PreferredFrom(df, prefered_columns, new_column, 1)

\* df.columns.str.contains('unnamed', case=False), for the column names of
\* the files.
ContainsUnnamed(c) == c \in {"Unnamed: 0", "unnamed"}

\* df.drop(columns, axis=1)
DropColumns(df, names) ==
    [columns |-> SelectSeq(df.columns, LAMBDA c : c \notin names),
     data |-> [c \in DOMAIN df.data \ names |-> df.data[c]]]

\* df[[...]]: the listed columns in the listed order.
SelectColumns(df, names) ==
    [columns |-> names, data |-> [c \in Range(names) |-> df.data[c]]]

\* df.dropna(subset=...): the rows without a missing value in those columns.
DropNa(df, subset) ==
    LET kept == SelectSeq([i \in 1..NRows(df) |-> i],
                          LAMBDA i : \A c \in subset : df.data[c][i] \notin {NaN, NaT})
    IN [columns |-> df.columns,
        data |-> [c \in DOMAIN df.data |-> [k \in DOMAIN kept |-> df.data[c][kept[k]]]]]

\* Rows without an hour are left in.
KeepMissingHours(df) == df

\* missing_hours = df['Hour'].isna().sum()
\* if missing_hours > 0: df = df.dropna(subset=['Hour'])
DropMissingHours(df) ==
    IF \E i \in 1..NRows(df) : df.data["Hour"][i] = NaN
    THEN DropNa(df, {"Hour"}) ELSE df

\* Rows with missing values are left in.
KeepEmptyRows(df) == df

\* df = df.dropna()
DropEmptyRows(df) == DropNa(df, Range(df.columns))

\* pd.to_datetime(df['Date'], infer_datetime_format=True) on one cell: the
\* dates the files carry, as datetimes; anything else does not parse.
ParseDate(cell) ==
    CASE cell = NaN -> [err |-> "none", value |-> NaT]
      [] cell = <<"2023-07-16">> -> [err |-> "none", value |-> <<"2023-07-16">>]
      [] cell = <<"16/07/2023">> -> [err |-> "none", value |-> <<"2023-07-16">>]
      [] OTHER -> [err |-> "ValueError", value |-> NaT]

\* .dt.strftime('%d/%m/%Y') on one cell
Strftime(cell) ==
    CASE cell = NaT -> NaN
      [] cell = <<"2023-07-16">> -> <<"16/07/2023">>

\* df['Date'].dt.strftime(...) + ' ' + df['Hour'] on one row
DateAndHour(date, hour) == IF date = NaN THEN NaN ELSE date \o <<" ">> \o hour

\* int() of two digit characters
HourValue(h) ==
    LET digits == <<"0", "1", "2", "3", "4", "5", "6", "7", "8", "9">>
        value(c) == (CHOOSE n \in DOMAIN digits : digits[n] = c) - 1
    IN 10 * value(h[1]) + value(h[2])

\* pd.to_datetime(..., format='%d/%m/%Y %H:%M:%S') on one cell: the date and
\* the hour of the day, or ValueError when %H does not match.
ParseTimestamp(cell) ==
    IF cell = NaN THEN [err |-> "none", value |-> NaT]
    ELSE IF HourValue(SubSeq(cell, 3, 4)) > 23 THEN [err |-> "ValueError", value |-> NaT]
    ELSE [err |-> "none",
          value |-> ParseDate(<<cell[1]>>).value \o SubSeq(cell, 3, 4)]

\* clean_df on one frame of data_bus['dfs'].  err is the exception raised;
\* bus is the dictionary as the call left it.  (A column read from csv with
\* missing values holds floats: 9 reads 9.0, whose str clean_hours maps like
\* "9"; the cells keep the text of the file.)
leeds_clean_df(bus, df_name) ==
    LET raw == bus.dfs[df_name]
        unnamed == DropColumns(raw, {c \in Range(raw.columns) : ContainsUnnamed(c)})
        footfall == create_preferred_column(unnamed, bus.prefered_footfall_columns,
                                            "total_footfall")
        location == create_preferred_column(footfall, bus.prefered_location_columns,
                                            "footfall_location")
        hourly == DropMissingHours(location)
        hours == [i \in 1..NRows(hourly) |-> clean_hours(Str(hourly.data["Hour"][i]))]
        dates == [i \in 1..NRows(hourly) |-> ParseDate(hourly.data["Date"][i])]
        stamps == [i \in 1..NRows(hourly) |->
                      ParseTimestamp(DateAndHour(Strftime(dates[i].value), hours[i].value))]
        resolved ==
            SetColumn(
              SetColumn(
                SetColumn(
                  SetColumn(hourly, "Hour", [i \in 1..NRows(hourly) |-> hours[i].value]),
                  "Date", [i \in 1..NRows(hourly) |-> dates[i].value]),
                "timestamp", [i \in 1..NRows(hourly) |-> stamps[i].value]),
              "city", [i \in 1..NRows(hourly) |-> <<"Leeds">>])
        out == SelectColumns(DropEmptyRows(resolved),
                             <<"city", "footfall_location", "timestamp", "total_footfall">>)
        fail(e) == [err |-> e, bus |-> bus]
    IN IF Subscript(bus, {"dfs"}) # "none" THEN fail(Subscript(bus, {"dfs"}))
       ELSE IF df_name \notin DOMAIN bus.dfs THEN fail("KeyError")
       ELSE IF Subscript(bus, {"prefered_footfall_columns"}) # "none" THEN fail("KeyError")
       ELSE IF Subscript(bus, {"prefered_location_columns"}) # "none" THEN fail("KeyError")
       ELSE IF footfall = PyFalse
       THEN (IF bus.prefered_location_columns = <<>> THEN fail("TypeError")
             ELSE fail("AttributeError"))
       ELSE IF location = PyFalse THEN fail("TypeError")
       ELSE IF "Hour" \notin Range(location.columns) THEN fail("KeyError")
       ELSE IF \E i \in DOMAIN hours : hours[i].err # "none" THEN fail("AttributeError")
       ELSE IF "Date" \notin Range(hourly.columns) THEN fail("KeyError")
       ELSE IF \E i \in DOMAIN dates : dates[i].err # "none" THEN fail("ValueError")
       ELSE IF \E i \in DOMAIN stamps : stamps[i].err # "none" THEN fail("ValueError")
       ELSE [err |-> "none",
             bus |-> SetItem(bus, "dfs", SetItem(bus.dfs, df_name, out))]

\* The csv files the Leeds site lists, in the order of the listing.
LeedsFiles == <<"a.csv", "b.csv">>

\* Two downloaded files: one with every column clean_df reads, one without a
\* footfall column.
LeedsFrames ==
    {[columns |-> <<"Date", "Hour", "LocationName", "Count">>,
      data |-> [Date |-> << <<"2023-07-16">> >>, Hour |-> << <<"9">> >>,
                LocationName |-> << <<"Briggate">> >>, Count |-> << <<"7">> >>]],
     [columns |-> <<"Date", "Hour", "LocationName">>,
      data |-> [Date |-> << <<"2023-07-16">> >>, Hour |-> << <<"9">> >>,
                LocationName |-> << <<"Briggate">> >>]]}

\* What download_data reads: a dataframe per listed file.
LeedsAnswers == [Range(LeedsFiles) -> LeedsFrames]

leeds_download_data(bus, wh, bk, ext) ==
    LET need == {"api_url", "download_url", "exclude_files"} IN
    IF Subscript(bus, need) # "none" THEN Raise(Subscript(bus, need), bus, wh, bk)
    ELSE Return(SetItem(SetItem(SetItem(bus, "file_list", LeedsFiles), "dfs", ext),
                        "dfs_raw", TRUE),
                wh, bk)

leeds_load_to_bucket(bus, wh, bk, ext) ==
    LET folder == IF "dfs_raw" \in DOMAIN bus /\ bus.dfs_raw = TRUE
                  THEN "gcp_bucket_folder_raw" ELSE "gcp_bucket_folder_processed"
        need == {"dfs_raw", folder, "gcp_bucket", "dfs"}
    IN IF Subscript(bus, need) # "none" THEN Raise(Subscript(bus, need), bus, wh, bk)
       ELSE Return(bus, wh,
                   {o \in bk : o.path \notin {<<bus.gcp_bucket, bus[folder], f>> :
                                                 f \in DOMAIN bus.dfs}}
                   \cup {[path |-> <<bus.gcp_bucket, bus[folder], f>>,
                          content |-> bus.dfs[f]] : f \in DOMAIN bus.dfs})

RECURSIVE CleanFrom(_, _, _)
CleanFrom(bus, names, i) ==
    IF i > Len(names) THEN [err |-> "none", bus |-> bus]
    ELSE LET one == leeds_clean_df(bus, names[i])
         IN IF one.err # "none" THEN one ELSE CleanFrom(one.bus, names, i + 1)

\* The keys of data_bus['dfs'] in the order download_data inserted them.
DfNames(bus) == SelectSeq(LeedsFiles, LAMBDA f : f \in DOMAIN bus.dfs)

clean_all_dfs(bus, wh, bk, ext) ==
    LET need == {"dfs", "prefered_footfall_columns", "prefered_location_columns"} IN
    IF Subscript(bus, need) # "none" THEN Raise(Subscript(bus, need), bus, wh, bk)
    ELSE LET all == CleanFrom(bus, DfNames(bus), 1)
         IN IF all.err # "none" THEN Raise(all.err, all.bus, wh, bk)
            ELSE Return(SetItem(all.bus, "dfs_raw", FALSE), wh, bk)

\* pd.concat(dfs.values(), ignore_index=True).drop_duplicates() loaded with
\* if_exists='replace'.
leeds_load_df_to_bigquery(bus, wh, bk, ext) ==
    LET need == {"bq_dataset", "bq_table", "dfs", "gcp_project", "schema"} IN
    IF Subscript(bus, need) # "none" THEN Raise(Subscript(bus, need), bus, wh, bk)
    ELSE Return(bus,
                ReplaceTable(wh, <<bus.gcp_project, bus.bq_dataset, bus.bq_table>>,
                             SetToBag(UNION {Range(FrameRows(bus.dfs[f])) :
                                             f \in DOMAIN bus.dfs})),
                bk)

YorkSettings ==
    [api_url |-> "api_url",
     csv_filename |-> "york.csv",
     gcp_bucket |-> "bucket",
     gcp_bucket_folder_raw |-> "raw",
     gcp_bucket_folder_processed |-> "processed",
     gcp_project |-> "nwilliams-msc-comp-sci",
     bq_dataset |-> "footfall",
     bq_table |-> <<"york">>,
     schema |-> "schema"]

\* The csv the York site serves.
YorkAnswers == {[state |-> "raw"]}

york_download_data(bus, wh, bk, ext) ==
    IF Subscript(bus, {"api_url"}) # "none"
    THEN Raise(Subscript(bus, {"api_url"}), bus, wh, bk)
    ELSE Return(SetItem(SetItem(bus, "df", ext), "dfs_raw", TRUE), wh, bk)

york_load_to_bucket(bus, wh, bk, ext) ==
    LET folder == IF "dfs_raw" \in DOMAIN bus /\ bus.dfs_raw = TRUE
                  THEN "gcp_bucket_folder_raw" ELSE "gcp_bucket_folder_processed"
        need == {"dfs_raw", folder, "gcp_bucket", "csv_filename", "df"}
    IN IF Subscript(bus, need) # "none" THEN Raise(Subscript(bus, need), bus, wh, bk)
       ELSE Return(bus, wh,
                   Upload(bk, <<bus.gcp_bucket, bus[folder], bus.csv_filename>>, bus.df.state))

\* clean_df without its assignment to dfs_raw.
york_clean_df_keeps_flag(bus, wh, bk, ext) ==
    IF Subscript(bus, {"df"}) # "none"
    THEN Raise(Subscript(bus, {"df"}), bus, wh, bk)
    ELSE Return(SetItem(bus, "df", [bus.df EXCEPT !.state = "clean"]), wh, bk)

york_clean_df(bus, wh, bk, ext) ==
    IF Subscript(bus, {"df"}) # "none"
    THEN Raise(Subscript(bus, {"df"}), bus, wh, bk)
    ELSE Return(SetItem(SetItem(bus, "df", [bus.df EXCEPT !.state = "clean"]),
                        "dfs_raw", FALSE),
                wh, bk)

york_load_df_to_bigquery(bus, wh, bk, ext) ==
    LET need == {"bq_dataset", "bq_table", "df", "gcp_project", "schema"} IN
    IF Subscript(bus, need) # "none" THEN Raise(Subscript(bus, need), bus, wh, bk)
    ELSE Return(bus,
                ReplaceTable(wh, <<bus.gcp_project, bus.bq_dataset, bus.bq_table>>,
                             SetToBag({bus.df.state})),
                bk)

(***************************************************************************)
(* The flows: pipeline_stages, the task decorators, run_pipeline           *)
(***************************************************************************)

Pipelines == {"historic", "forecast", "holidays", "leeds", "york"}

pipeline_stages(p) ==
    CASE p = "historic" ->
           <<"get_api_key", "get_data", "load_raw_to_bucket", "historic.process_to_df",
             "load_df_to_bucket", "update_tablename", "load_df_to_bigquery",
             "update_historic_table">>
      [] p = "forecast" ->
           <<"get_api_key", "get_forecast", "load_raw_to_bucket", "forecast.process_to_df",
             "load_df_to_bucket", "load_df_to_bigquery">>
      [] p = "holidays" ->
           <<"retrieve_date", "load_raw_to_bucket", "holidays.process_to_df",
             "load_df_to_bucket", "load_df_to_bigquery">>
      [] p = "leeds" ->
           <<"leeds.download_data", "leeds.clean_all_dfs", "leeds.load_to_bucket",
             "leeds.load_df_to_bigquery">>
      [] p = "york" ->
           <<"york.download_data", "york.load_to_bucket", "york.clean_df",
             "york.load_to_bucket", "york.load_df_to_bigquery">>

\* @task(..., retries=3) where the decorator gives a count, else Prefect's
\* default of no retries.
Retries(stage) ==
    IF stage \in {"leeds.download_data", "leeds.load_to_bucket", "leeds.clean_all_dfs",
                  "leeds.load_df_to_bigquery", "york.download_data"}
    THEN 3 ELSE 0

\* stage(data_bus): the body of the task, run once.
StageCall(stage, bus, wh, bk, ext) ==
    CASE stage = "get_api_key" -> get_api_key(bus, wh, bk, ext)
      [] stage = "get_data" -> get_data(bus, wh, bk, ext)
      [] stage = "load_raw_to_bucket" -> load_raw_to_bucket(bus, wh, bk, ext)
      [] stage = "historic.process_to_df" -> historic_process_to_df(bus, wh, bk, ext)
      [] stage = "load_df_to_bucket" -> load_df_to_bucket(bus, wh, bk, ext)
      [] stage = "update_tablename" -> update_tablename(bus, wh, bk, ext)
      [] stage = "load_df_to_bigquery" -> load_df_to_bigquery(bus, wh, bk, ext)
      [] stage = "update_historic_table" -> update_historic_table(bus, wh, bk, ext)
      [] stage = "get_forecast" -> get_forecast(bus, wh, bk, ext)
      [] stage = "forecast.process_to_df" -> forecast_process_to_df(bus, wh, bk, ext)
      [] stage = "retrieve_date" -> retrieve_date(bus, wh, bk, ext)
      [] stage = "holidays.process_to_df" -> holidays_process_to_df(bus, wh, bk, ext)
      [] stage = "leeds.download_data" -> leeds_download_data(bus, wh, bk, ext)
      [] stage = "leeds.clean_all_dfs" -> clean_all_dfs(bus, wh, bk, ext)
      [] stage = "leeds.load_to_bucket" -> leeds_load_to_bucket(bus, wh, bk, ext)
      [] stage = "leeds.load_df_to_bigquery" -> leeds_load_df_to_bigquery(bus, wh, bk, ext)
      [] stage = "york.download_data" -> york_download_data(bus, wh, bk, ext)
      [] stage = "york.load_to_bucket" -> york_load_to_bucket(bus, wh, bk, ext)
      [] stage = "york.clean_df" -> york_clean_df(bus, wh, bk, ext)
      [] stage = "york.load_df_to_bigquery" -> york_load_df_to_bigquery(bus, wh, bk, ext)

\* Tasks whose body can raise for a cause outside the bus: a network, storage
\* or warehouse call, or a payload of another shape than the body reads.
\* update_tablename and clean_all_dfs read the bus only.
MayRaise(stage) == stage \notin {"update_tablename", "leeds.clean_all_dfs"}

\* init(filename) / json.load(f): the settings of each flow.
Settings(p) ==
    CASE p = "historic" -> HistoricSettings
      [] p = "forecast" -> ForecastSettings
      [] p = "holidays" -> HolidaysSettings
      [] p = "leeds" -> LeedsSettings
      [] p = "york" -> YorkSettings

\* What the outside world can answer the flow's requests with.
Worlds(p) ==
    CASE p = "historic" -> ApiAnswers(HistoricSettings)
      [] p = "forecast" -> ApiAnswers(ForecastSettings)
      [] p = "holidays" -> HolidayAnswers
      [] p = "leeds" -> LeedsAnswers
      [] p = "york" -> YorkAnswers

\* The warehouse before the first run: empty, or with the complete history
\* table created empty by hand.
InitialWarehouses == {<<>>, QueryHistoricId :> EmptyBag}

(***************************************************************************)
(* SpecMerge: historic.run_pipeline run after run                          *)
(***************************************************************************)

\* for stage in pipeline_stages: data_bus = stage(data_bus), from stage i to
\* stage last, stopping at the first stage that raises.
RECURSIVE RunStages(_, _, _, _, _)
RunStages(stages, i, last, r, ext) ==
    IF i > last \/ r.err # "none" THEN r
    ELSE RunStages(stages, i + 1, last, StageCall(stages[i], r.bus, r.wh, r.bk, ext), ext)

\* The dated table load_df_to_bigquery writes in a run for date d.
ShardTableId(d) ==
    <<HistoricSettings.gcp_project, HistoricSettings.bq_dataset,
      HistoricSettings.bq_tablename \o <<Yyyymmdd(d)>>>>

\* The table update_historic_table writes.
StoreTableId ==
    <<HistoricSettings.gcp_project, HistoricSettings.bq_dataset,
      HistoricSettings.bq_complete_history>>

\* run_pipeline(date) of historic.py.  failAt = 0: no task raises for an
\* outside cause; failAt = k: task k does, before its own write.  flow_run
\* keeps the date and final state of the run; rerun tells that the run before
\* it completed for the same date with the same dated table.
historic_run_pipeline(d, ext, failAt) ==
    \E r \in {RunStages(pipeline_stages("historic"), 1,
                        IF failAt = 0 THEN Len(pipeline_stages("historic")) ELSE failAt - 1,
                        Return(SetItem(HistoricSettings, "date", d), warehouse, bucket), ext)} :
       LET completed == failAt = 0 /\ r.err = "none" IN
       /\ warehouse' = r.wh
       /\ bucket' = r.bk
       /\ flow_run' = [state |-> IF completed THEN "Completed" ELSE "Failed",
                       date |-> d,
                       rerun |-> /\ completed
                                 /\ flow_run.state = "Completed"
                                 /\ flow_run.date = d
                                 /\ r.wh[ShardTableId(d)] = warehouse[ShardTableId(d)]]
       /\ UNCHANGED <<hostDst, execVars, prefVars, fnVars>>

HistoricRun == \E d \in Dates, ext \in ApiAnswers(HistoricSettings) :
    historic_run_pipeline(d, ext, 0)

HistoricRunAborted ==
    \E d \in Dates, ext \in ApiAnswers(HistoricSettings),
       k \in 1..Len(pipeline_stages("historic")) :
        /\ MayRaise(pipeline_stages("historic")[k])
        /\ historic_run_pipeline(d, ext, k)

ExecIdle ==
    /\ pipeline = "none"
    /\ flow_state = "NotStarted"
    /\ stage_idx = 0
    /\ task_state = "Idle"
    /\ data_bus = None
    /\ world = "none"
    /\ calls = <<>>
    /\ received = <<>>
    /\ returned = <<>>
    /\ raised = <<>>

PrefIdle ==
    /\ pf_pc = "args"
    /\ pf_df = None
    /\ pf_prefs = <<>>
    /\ pf_new = "none"
    /\ pf_out = None

FnIdle ==
    /\ fn_pc = "args"
    /\ fn_in = None
    /\ fn_out = None

MergeIdle ==
    /\ hostDst \in BOOLEAN
    /\ warehouse \in InitialWarehouses
    /\ bucket = {}
    /\ flow_run = [state |-> "None", date |-> "none", rerun |-> FALSE]

InitMerge == MergeIdle /\ ExecIdle /\ PrefIdle /\ FnIdle

NextMerge == HistoricRun \/ HistoricRunAborted

SpecMerge == InitMerge /\ [][NextMerge]_vars

(***************************************************************************)
(* SpecExec: one flow run, task by task                                    *)
(***************************************************************************)

\* The bus run_pipeline starts from: the settings file (read whole, or with
\* one key missing from it), and for historic the run date.
InitialBus(p, settings, d) ==
    IF p = "historic" THEN SetItem(settings, "date", d) ELSE settings

Without(settings, key) == [k \in DOMAIN settings \ {key} |-> settings[k]]

SettingsFiles(p) == {Settings(p)} \cup {Without(Settings(p), k) : k \in DOMAIN Settings(p)}

CurrentStage == pipeline_stages(pipeline)[stage_idx]

\* run_pipeline up to the for loop.
StartFlow ==
    \E p \in Pipelines, d \in Dates :
      \E settings \in SettingsFiles(p), w \in Worlds(p) :
        /\ flow_state = "NotStarted"
        /\ pipeline' = p
        /\ flow_state' = "Running"
        /\ data_bus' = InitialBus(p, settings, d)
        /\ world' = w
        /\ stage_idx' = 1
        /\ calls' = [i \in DOMAIN pipeline_stages(p) |-> 0]
        /\ UNCHANGED <<task_state, received, returned, raised, mergeVars, prefVars, fnVars>>

\* The loop calls stage(data_bus): the task run starts its first attempt.
CallStage ==
    /\ flow_state = "Running"
    /\ task_state = "Idle"
    /\ stage_idx <= Len(pipeline_stages(pipeline))
    /\ task_state' = "Running"
    /\ calls' = [calls EXCEPT ![stage_idx] = @ + 1]
    /\ received' = SetItem(received, stage_idx, data_bus)
    /\ UNCHANGED <<pipeline, flow_state, stage_idx, data_bus, world, returned, raised,
                   mergeVars, prefVars, fnVars>>

\* The loop with stage(data_bus) in place of data_bus = stage(data_bus).
TaskReturnsUnassigned ==
    /\ task_state = "Running"
    /\ \E r \in {StageCall(CurrentStage, data_bus, warehouse, bucket, world)} :
        /\ r.err = "none"
        /\ data_bus' = data_bus
        /\ warehouse' = r.wh
        /\ bucket' = r.bk
        /\ returned' = SetItem(returned, stage_idx, r.bus)
    /\ task_state' = "Idle"
    /\ stage_idx' = stage_idx + 1
    /\ UNCHANGED <<pipeline, flow_state, world, calls, received, raised,
                   hostDst, flow_run, prefVars, fnVars>>

\* The attempt returns: data_bus = stage(data_bus), and the loop moves on.
TaskReturns ==
    /\ task_state = "Running"
    /\ \E r \in {StageCall(CurrentStage, data_bus, warehouse, bucket, world)} :
        /\ r.err = "none"
        /\ data_bus' = r.bus
        /\ warehouse' = r.wh
        /\ bucket' = r.bk
        /\ returned' = SetItem(returned, stage_idx, r.bus)
    /\ task_state' = "Idle"
    /\ stage_idx' = stage_idx + 1
    /\ UNCHANGED <<pipeline, flow_state, world, calls, received, raised,
                   hostDst, flow_run, prefVars, fnVars>>

\* The attempt raises: the error of the body on this bus, or an error from
\* outside (before the body's own write).  The dictionary keeps what the
\* attempt had already assigned.
TaskRaises ==
    /\ task_state = "Running"
    /\ \E r \in {StageCall(CurrentStage, data_bus, warehouse, bucket, world)} :
        \/ /\ r.err # "none"
           /\ data_bus' = r.bus
           /\ raised' = SetItem(raised, stage_idx, r.err)
        \/ /\ r.err = "none"
           /\ MayRaise(CurrentStage)
           /\ data_bus' = data_bus
           /\ raised' = SetItem(raised, stage_idx, "Exception")
    /\ task_state' = "Raised"
    /\ UNCHANGED <<pipeline, flow_state, stage_idx, world, calls, received, returned,
                   mergeVars, prefVars, fnVars>>

\* A retry loop that runs once too often.
RetryTaskOnceMore ==
    /\ task_state = "Raised"
    /\ flow_state = "Running"
    /\ calls[stage_idx] <= Retries(CurrentStage) + 1
    /\ task_state' = "Running"
    /\ calls' = [calls EXCEPT ![stage_idx] = @ + 1]
    /\ UNCHANGED <<pipeline, flow_state, stage_idx, data_bus, world, received, returned,
                   raised, mergeVars, prefVars, fnVars>>

\* Prefect runs the task again while retries are left, with the same argument.
RetryTask ==
    /\ task_state = "Raised"
    /\ flow_state = "Running"
    /\ calls[stage_idx] <= Retries(CurrentStage)
    /\ task_state' = "Running"
    /\ calls' = [calls EXCEPT ![stage_idx] = @ + 1]
    /\ UNCHANGED <<pipeline, flow_state, stage_idx, data_bus, world, received, returned,
                   raised, mergeVars, prefVars, fnVars>>

\* A loop that catches the exception of a stage and goes on to the next one.
FlowSwallowsFailure ==
    /\ task_state = "Raised"
    /\ flow_state = "Running"
    /\ calls[stage_idx] > Retries(CurrentStage)
    /\ task_state' = "Idle"
    /\ stage_idx' = stage_idx + 1
    /\ UNCHANGED <<pipeline, flow_state, data_bus, world, calls, received,
                   returned, raised, mergeVars, prefVars, fnVars>>

\* A run that on failure deletes what its earlier stages wrote.
FlowFailsRollsBack ==
    /\ task_state = "Raised"
    /\ flow_state = "Running"
    /\ calls[stage_idx] > Retries(CurrentStage)
    /\ flow_state' = "Failed"
    /\ warehouse' = <<>>
    /\ bucket' = {}
    /\ UNCHANGED <<pipeline, stage_idx, task_state, data_bus, world, calls, received,
                   returned, raised, hostDst, flow_run, prefVars, fnVars>>

\* No retry is left: the exception leaves the task and run_pipeline.
FlowFails ==
    /\ task_state = "Raised"
    /\ flow_state = "Running"
    /\ calls[stage_idx] > Retries(CurrentStage)
    /\ flow_state' = "Failed"
    /\ UNCHANGED <<pipeline, stage_idx, task_state, data_bus, world, calls, received,
                   returned, raised, mergeVars, prefVars, fnVars>>

\* The loop is over: run_pipeline returns.
FlowCompletes ==
    /\ flow_state = "Running"
    /\ task_state = "Idle"
    /\ stage_idx > Len(pipeline_stages(pipeline))
    /\ flow_state' = "Completed"
    /\ UNCHANGED <<pipeline, stage_idx, task_state, data_bus, world, calls, received,
                   returned, raised, mergeVars, prefVars, fnVars>>

\* A row of the weather tables that an earlier run loaded and no run of
\* today makes.
OldWeatherRow == [city |-> "Leeds", date |-> 0, temp |-> 180, rain |-> 0, snow |-> 0]

TableId(settings, name) == <<settings.gcp_project, settings.bq_dataset, name>>

\* The warehouse after earlier runs of every flow: each table a flow writes
\* is there with a row of those runs (a holiday, a footfall row, a York row).
PreviousRuns ==
    [t \in {ShardTableId(d) : d \in Dates} \cup {StoreTableId}
            \cup {TableId(ForecastSettings, ForecastSettings.bq_tablename)} |->
        SetToBag({OldWeatherRow})]
    @@ (TableId(HolidaysSettings, HolidaysSettings.bq_tablename) :> SetToBag({[date |-> "2022-12-26", name |-> "Boxing Day"]}))
    @@ (TableId(LeedsSettings, LeedsSettings.bq_table) :>
            SetToBag({[city |-> <<"Leeds">>, footfall_location |-> <<"Headrow">>,
                       timestamp |-> <<"2023-07-01 09:00:00">>,
                       total_footfall |-> <<"1">>]}))
    @@ (TableId(YorkSettings, YorkSettings.bq_table) :> SetToBag({"old"}))

InitExec ==
    /\ hostDst \in BOOLEAN
    /\ warehouse \in InitialWarehouses \cup {PreviousRuns}
    /\ bucket = {}
    /\ flow_run = [state |-> "None", date |-> "none", rerun |-> FALSE]
    /\ ExecIdle
    /\ PrefIdle
    /\ FnIdle

NextExec ==
    \/ StartFlow
    \/ CallStage
    \/ TaskReturns
    \/ TaskRaises
    \/ RetryTask
    \/ FlowFails
    \/ FlowCompletes

SpecExec == InitExec /\ [][NextExec]_vars

(***************************************************************************)
(* SpecPref: footfall_leeds.create_preferred_column                        *)
(***************************************************************************)

\* Bounds of the dataframes and preference lists tried.
MaxRows == 1
MaxPrefs == 3

\* Column names of the raw csv files, in file order, and the columns
\* clean_df creates.
RawColumnOrder == <<"LocationName", "Location", "Count">>
NewColumns == {"total_footfall", "footfall_location"}

\* Cell values; "nan" is pandas' missing value.
Cells == {"nan", "x", "y"}

\* A dataframe: its column index and, per column, the cells of its rows.
DataFrames ==
    UNION {UNION {{[columns |-> SelectSeq(RawColumnOrder, LAMBDA c : c \in S),
                    data |-> d] : d \in [S -> [1..n -> Cells]]} :
                  n \in 0..MaxRows} :
           S \in SUBSET Range(RawColumnOrder)}

PrefLists == UNION {[1..n -> Range(RawColumnOrder)] : n \in 0..MaxPrefs}

CallCreatePreferredColumn ==
    /\ pf_pc = "args"
    /\ pf_pc' = "returned"
    /\ pf_out' = create_preferred_column(pf_df, pf_prefs, pf_new)
    /\ UNCHANGED <<pf_df, pf_prefs, pf_new, mergeVars, execVars, fnVars>>

InitPref ==
    /\ hostDst = FALSE
    /\ warehouse = <<>>
    /\ bucket = {}
    /\ flow_run = [state |-> "None", date |-> "none", rerun |-> FALSE]
    /\ ExecIdle
    /\ FnIdle
    /\ pf_pc = "args"
    /\ pf_df \in DataFrames
    /\ pf_prefs \in PrefLists
    /\ pf_new \in NewColumns
    /\ pf_out = None

NextPref == CallCreatePreferredColumn

SpecPref == InitPref /\ [][NextPref]_vars

(***************************************************************************)
(* SpecHours: footfall_leeds.clean_hours                                   *)
(***************************************************************************)

CallCleanHours ==
    /\ fn_pc = "args"
    /\ fn_pc' = "returned"
    /\ fn_out' = clean_hours(fn_in)
    /\ UNCHANGED <<fn_in, mergeVars, execVars, prefVars>>

InitHours ==
    /\ hostDst = FALSE
    /\ warehouse = <<>>
    /\ bucket = {}
    /\ flow_run = [state |-> "None", date |-> "none", rerun |-> FALSE]
    /\ ExecIdle
    /\ PrefIdle
    /\ fn_pc = "args"
    /\ fn_in \in HourTokens
    /\ fn_out = None

NextHours == CallCleanHours

SpecHours == InitHours /\ [][NextHours]_vars

(***************************************************************************)
(* SpecClean: footfall_leeds.clean_df                                      *)
(***************************************************************************)

\* Bound on the rows of the raw dataframes tried.
MaxCleanRows == 2

\* Columns of a downloaded file, in file order, and the csv fields a column
\* can hold: an empty field reads as NaN.
CleanColumnOrder == <<"Unnamed: 0", "Date", "Hour", "LocationName", "Count", "BRCWeek">>

CellsOf(c) ==
    CASE c = "Unnamed: 0" -> {NaN}
      [] c = "Date" -> {NaN, <<"2023-07-16">>, <<"bad">>}
      [] c = "Hour" -> {NaN, <<"9">>, <<"4", "0">>, <<"a">>}
      [] c = "LocationName" -> {NaN, <<"Briggate">>}
      [] c = "Count" -> {NaN, <<"7">>}
      [] c = "BRCWeek" -> {NaN, <<"28">>}

\* A row of a file: a full hourly count, a row with one field of another
\* kind, a daily total (no hour) with a date that does not parse, and an
\* empty line.
FullRow ==
    [c \in Range(CleanColumnOrder) |->
        CASE c = "Unnamed: 0" -> NaN
          [] c = "Date" -> <<"2023-07-16">>
          [] c = "Hour" -> <<"9">>
          [] c = "LocationName" -> <<"Briggate">>
          [] c = "Count" -> <<"7">>
          [] c = "BRCWeek" -> <<"28">>]

RawRows ==
    UNION {{[FullRow EXCEPT ![c] = v] : v \in CellsOf(c)} : c \in Range(CleanColumnOrder)}
    \cup {[FullRow EXCEPT !["Hour"] = NaN, !["Date"] = <<"bad">>],
          [c \in Range(CleanColumnOrder) |-> NaN]}

\* pd.read_csv(url) of a file of up to maxRows rows: with or without the
\* columns clean_df does not read, and with at most one of those it reads
\* missing.
RawFrames(maxRows) ==
    UNION {UNION {{[columns |-> SelectSeq(CleanColumnOrder, LAMBDA c : c \in S),
                    data |-> [c \in S |-> [i \in 1..n |-> rows[i][c]]]] :
                   rows \in [1..n -> RawRows]} :
                  n \in 0..maxRows} :
           S \in {T \in SUBSET Range(CleanColumnOrder) :
                     Cardinality({"Date", "Hour", "LocationName", "Count"} \ T) <= 1}}

\* The bus after download_data read df as its one file.
DownloadedBus(df) ==
    SetItem(SetItem(SetItem(LeedsSettings, "file_list", <<"a.csv">>),
                    "dfs", "a.csv" :> df),
            "dfs_raw", TRUE)

\* data_bus = clean_df(data_bus, key)
CallCleanDf ==
    /\ fn_pc = "args"
    /\ fn_pc' = "returned"
    /\ fn_out' = <<leeds_clean_df(fn_in.bus, fn_in.df_name)>>
    /\ UNCHANGED <<fn_in, mergeVars, execVars, prefVars>>

\* clean_df called once more with the dictionary the first call left, as a
\* retry of clean_all_dfs does.
CallCleanDfAgain ==
    /\ fn_pc = "returned"
    /\ fn_pc' = "returned again"
    /\ fn_out' = Append(fn_out, leeds_clean_df(fn_out[1].bus, fn_in.df_name))
    /\ UNCHANGED <<fn_in, mergeVars, execVars, prefVars>>

InitClean ==
    /\ hostDst = FALSE
    /\ warehouse = <<>>
    /\ bucket = {}
    /\ flow_run = [state |-> "None", date |-> "none", rerun |-> FALSE]
    /\ ExecIdle
    /\ PrefIdle
    /\ fn_pc = "args"
    /\ fn_in \in {[bus |-> DownloadedBus(df), df_name |-> "a.csv"] : df \in RawFrames(MaxCleanRows)}
    /\ fn_out = <<>>

NextClean == CallCleanDf \/ CallCleanDfAgain

SpecClean == InitClean /\ [][NextClean]_vars

(***************************************************************************)
(* SpecRows: process_to_df of the weather pipelines                        *)
(***************************************************************************)

\* Bound on the entries of the API 'list' tried.
MaxEntries == 2

\* An optional metric of an entry: left out, or there with one of values.
OptionalMetric(name, values) == {<<>>} \cup {name :> v : v \in values}

\* 'rain' and 'snow' of an hourly entry: the volume of the last hour, or of
\* the last three hours only.
HourlyVolumes == {"1h" :> 13, "3h" :> 13}

\* 'rain' and 'snow' of a daily entry: the volume.
DailyVolumes == {13}

HistoricEntries ==
    {(e @@ r) @@ s : e \in [dt : EpochHours, temp : Temps],
                     r \in OptionalMetric("rain", HourlyVolumes),
                     s \in OptionalMetric("snow", HourlyVolumes)}

ForecastEntries ==
    {(e @@ r) @@ s : e \in [dt : EpochHours, temp : Temps],
                     r \in OptionalMetric("rain", DailyVolumes),
                     s \in OptionalMetric("snow", DailyVolumes)}

EntryLists(entries) == UNION {[1..n -> entries] : n \in 0..MaxEntries}

\* The bus after the API answered list for the one city.
AnsweredBus(list) == [api_response |-> <<[city |-> "Leeds", list |-> list]>>]

\* historic.process_to_df(data_bus)
CallHistoricProcessToDf ==
    /\ fn_pc = "args"
    /\ fn_in.pipeline = "historic"
    /\ fn_pc' = "returned"
    /\ fn_out' = historic_process_to_df(AnsweredBus(fn_in.list), <<>>, {}, <<>>)
    /\ UNCHANGED <<fn_in, mergeVars, execVars, prefVars>>

\* forecast.process_to_df(data_bus)
CallForecastProcessToDf ==
    /\ fn_pc = "args"
    /\ fn_in.pipeline = "forecast"
    /\ fn_pc' = "returned"
    /\ fn_out' = forecast_process_to_df(AnsweredBus(fn_in.list), <<>>, {}, <<>>)
    /\ UNCHANGED <<fn_in, mergeVars, execVars, prefVars>>

InitRows ==
    /\ hostDst \in BOOLEAN
    /\ warehouse = <<>>
    /\ bucket = {}
    /\ flow_run = [state |-> "None", date |-> "none", rerun |-> FALSE]
    /\ ExecIdle
    /\ PrefIdle
    /\ fn_pc = "args"
    /\ fn_in \in {[pipeline |-> "historic", list |-> l] : l \in EntryLists(HistoricEntries)}
                 \cup {[pipeline |-> "forecast", list |-> l] : l \in EntryLists(ForecastEntries)}
    /\ fn_out = None

NextRows == CallHistoricProcessToDf \/ CallForecastProcessToDf

SpecRows == InitRows /\ [][NextRows]_vars

(***************************************************************************)
(* SpecConfig: historic.run_pipeline under other settings                  *)
(***************************************************************************)

\* historic-settings.json with the project, the dataset and the two table
\* names as shipped or set to other names.
HistoricConfigs ==
    {SetItem(SetItem(SetItem(SetItem(HistoricSettings,
                                     "gcp_project", p), "bq_dataset", ds),
                     "bq_tablename", t), "bq_complete_history", c) :
        p \in {"nwilliams-msc-comp-sci", "other-project"},
        ds \in {"weather", "weather_test"},
        t \in {<<"historic">>, <<"hourly">>},
        c \in {<<"historic", "complete">>, <<"hourly", "complete">>}}

\* run_pipeline(date) with the settings file of fn_in; fn_out keeps how the
\* run ended and the warehouse it started from.
RunConfiguredHistoric ==
    /\ fn_pc = "args"
    /\ \E r \in {RunStages(pipeline_stages("historic"), 1, Len(pipeline_stages("historic")),
                           Return(SetItem(fn_in.settings, "date", fn_in.date),
                                  warehouse, bucket),
                           fn_in.ext)} :
        /\ warehouse' = r.wh
        /\ bucket' = r.bk
        /\ fn_out' = [err |-> r.err, before |-> warehouse]
    /\ fn_pc' = "returned"
    /\ UNCHANGED <<fn_in, hostDst, flow_run, execVars, prefVars>>

InitConfig ==
    /\ hostDst = FALSE
    /\ warehouse \in InitialWarehouses \cup {PreviousRuns}
    /\ bucket = {}
    /\ flow_run = [state |-> "None", date |-> "none", rerun |-> FALSE]
    /\ ExecIdle
    /\ PrefIdle
    /\ fn_pc = "args"
    /\ fn_in \in [settings : HistoricConfigs, date : Dates,
                  ext : ApiAnswers(HistoricSettings)]
    /\ fn_out = None

NextConfig == RunConfiguredHistoric

SpecConfig == InitConfig /\ [][NextConfig]_vars

(***************************************************************************)
(* SpecHolidays: holidays.process_to_df                                    *)
(***************************************************************************)

\* Bound on the holidays of one yearly response tried.
MaxDays == 2

\* A public holiday as the API lists it: for the whole country (counties
\* null) or for some of its countries.
HolidayDays ==
    [date : {"2023-03-17", "2023-08-28"},
     name : {"Saint Patrick's Day", "Summer Bank Holiday"},
     localName : {"St Patrick's Day", "Summer Bank Holiday"},
     counties : {NullCounties, {"GB-ENG"}, {"GB-SCT"}, {"GB-NIR"}, {"GB-ENG", "GB-WLS"}}]

\* data_bus['api_response']: one year of up to MaxDays holidays, or two years
\* of at most one holiday each.
HolidayResponses ==
    {<<year>> : year \in UNION {[1..n -> HolidayDays] : n \in 0..MaxDays}}
    \cup {<<y1, y2>> : y1 \in UNION {[1..n -> HolidayDays] : n \in 0..1},
                       y2 \in UNION {[1..n -> HolidayDays] : n \in 0..1}}

\* holidays.process_to_df(data_bus)
CallHolidaysProcessToDf ==
    /\ fn_pc = "args"
    /\ fn_pc' = "returned"
    /\ fn_out' = holidays_process_to_df([api_response |-> fn_in], <<>>, {}, <<>>)
    /\ UNCHANGED <<fn_in, mergeVars, execVars, prefVars>>

InitHolidays ==
    /\ hostDst = FALSE
    /\ warehouse = <<>>
    /\ bucket = {}
    /\ flow_run = [state |-> "None", date |-> "none", rerun |-> FALSE]
    /\ ExecIdle
    /\ PrefIdle
    /\ fn_pc = "args"
    /\ fn_in \in HolidayResponses
    /\ fn_out = None

NextHolidays == CallHolidaysProcessToDf

SpecHolidays == InitHolidays /\ [][NextHolidays]_vars

(***************************************************************************)
(* Properties of the merge (SpecMerge)                                     *)
(***************************************************************************)

\* The composite key of a row of the historic tables.
RowKey(r) == <<r.city, r.date>>

KeysOf(B) == {RowKey(r) : r \in BagToSet(B)}

\* The rows of table B whose key is k, as a bag.
RowsOfKey(B, k) == [r \in {x \in BagToSet(B) : RowKey(x) = k} |-> B[r]]

\* C1: after any sequence of historic runs the complete history table holds
\* at most one row per (city, date) key.
C1_StoreKeysUnique ==
    StoreTableId \in DOMAIN warehouse =>
        \A k \in KeysOf(warehouse[StoreTableId]) :
            BagCardinality(RowsOfKey(warehouse[StoreTableId], k)) = 1

\* C2: a completed run leaves, for every key that is both in the dated table
\* it loaded and in the history before it, the shard's row for that key
\* exactly once in the history and no other row for the key.
C2_ShardRowExactlyOnce ==
    [][flow_run'.state = "Completed" =>
         \A k \in KeysOf(warehouse'[ShardTableId(flow_run'.date)])
                  \cap KeysOf(warehouse[StoreTableId]) :
            /\ BagCardinality(RowsOfKey(warehouse'[StoreTableId], k)) = 1
            /\ RowsOfKey(warehouse'[StoreTableId], k)
               = RowsOfKey(warehouse'[ShardTableId(flow_run'.date)], k)]_vars

\* C3: a completed run that follows a completed run for the same date with
\* the same dated table leaves the complete history table as it was.
C3_RemergeChangesNothing ==
    [][(flow_run'.state = "Completed" /\ flow_run'.rerun) =>
         warehouse'[StoreTableId] = warehouse[StoreTableId]]_vars

\* C3's case: the same shard was merged twice in succession into a history
\* that also holds rows of another key.
C3_Witness ==
    /\ flow_run.state = "Completed"
    /\ flow_run.rerun
    /\ warehouse[ShardTableId(flow_run.date)] # EmptyBag
    /\ KeysOf(warehouse[StoreTableId]) \ KeysOf(warehouse[ShardTableId(flow_run.date)]) # {}

\* The rows of old whose key is not a key of shard.
RowsWithOtherKeys(old, shard) ==
    [r \in {x \in BagToSet(old) : RowKey(x) \notin KeysOf(shard)} |-> old[r]]

\* C4: the history after a completed run is every row of the shard plus
\* every row of the history before it whose key is not in the shard, and
\* nothing else.
C4_StoreIsShardPlusOtherKeys ==
    [][flow_run'.state = "Completed" =>
         warehouse'[StoreTableId]
         = warehouse'[ShardTableId(flow_run'.date)]
           (+) RowsWithOtherKeys(warehouse[StoreTableId],
                                 warehouse'[ShardTableId(flow_run'.date)])]_vars

\* C4's case: after a completed run the history holds the shard's rows, a row
\* kept from before under another key, and not the value the shard replaced.
C4_Witness ==
    /\ flow_run.state = "Completed"
    /\ ~flow_run.rerun
    /\ warehouse[ShardTableId(flow_run.date)] # EmptyBag
    /\ KeysOf(warehouse[StoreTableId]) \ KeysOf(warehouse[ShardTableId(flow_run.date)]) # {}
    /\ \E d \in Dates :
         /\ ShardTableId(d) \in DOMAIN warehouse
         /\ \E r \in BagToSet(warehouse[ShardTableId(d)]) :
              /\ RowKey(r) \in KeysOf(warehouse[ShardTableId(flow_run.date)])
              /\ r \notin BagToSet(warehouse[StoreTableId])

(***************************************************************************)
(* Properties of the flow runs (SpecExec)                                  *)
(***************************************************************************)

StageAt(i) == pipeline_stages(pipeline)[i]

\* Stage i has raised and not returned.
Failing(i) == i \in DOMAIN raised /\ i \notin DOMAIN returned

\* C5: when a stage has failed for good, no later stage of the list is ever
\* invoked, the run does not complete, and the failure leaves run_pipeline.
C5_FailFast ==
    \A i \in DOMAIN calls :
        Failing(i) =>
            /\ \A j \in DOMAIN calls : j > i => calls[j] = 0
            /\ flow_state # "Completed"
            /\ (task_state = "Raised" /\ calls[i] > Retries(StageAt(i)))
                   => (flow_state = "Failed" \/ ENABLED FlowFails)

\* C5's case: a stage without retries raised in mid-pipeline and the run
\* failed with the later stages never invoked.
C5_Witness ==
    /\ flow_state = "Failed"
    /\ stage_idx > 1
    /\ stage_idx < Len(pipeline_stages(pipeline))
    /\ Retries(CurrentStage) = 0
    /\ Failing(stage_idx)
    /\ calls[stage_idx + 1] = 0

\* C6: a stage with retry count n is invoked at most n + 1 times (once when
\* it declares none), and once all of them have failed no further attempt is
\* made and the run fails.
C6_AttemptsBounded ==
    \A i \in DOMAIN calls :
        /\ calls[i] <= Retries(StageAt(i)) + 1
        /\ (Failing(i) /\ task_state = "Raised" /\ calls[i] = Retries(StageAt(i)) + 1)
               => /\ ~ENABLED RetryTask
                  /\ flow_state = "Failed" \/ ENABLED FlowFails

\* C6's case: a stage declared with retries=3 failed four times and the run
\* failed.
C6_Witness ==
    /\ flow_state = "Failed"
    /\ Retries(CurrentStage) = 3
    /\ calls[stage_idx] = 4
    /\ raised[stage_idx] = "Exception"

\* C7: a schema or parse failure in clean_all_dfs is not retried: the stage
\* is attempted once.
C7_SchemaFailureAttemptedOnce ==
    \A i \in DOMAIN raised :
        (StageAt(i) = "leeds.clean_all_dfs" /\ raised[i] = "AttributeError")
            => calls[i] = 1

\* C8: a stage that fails on a missing bus key is not invoked again.
C8_MissingKeyAttemptedOnce ==
    \A i \in DOMAIN raised : raised[i] = "KeyError" => calls[i] = 1

\* C9: stages are invoked one at a time in list order, each after the
\* previous one returned, and each is called with the value the previous
\* stage returned.
C9_StagesInOrder ==
    /\ \A i \in DOMAIN calls :
          calls[i] > 0 =>
              /\ i \in DOMAIN received
              /\ i <= stage_idx
              /\ \A j \in 1..(i - 1) : j \in DOMAIN returned
              /\ i > 1 => received[i] = returned[i - 1]
    /\ task_state # "Idle" => stage_idx \notin DOMAIN returned
    /\ \A i \in DOMAIN returned : i < stage_idx

\* C9's case: a flow completed, and its third stage was called with what the
\* second returned, which differs from what the second was called with.
C9_Witness ==
    /\ flow_state = "Completed"
    /\ pipeline = "york"
    /\ DOMAIN returned = DOMAIN calls
    /\ received[4] = returned[3]
    /\ received[4] # received[3]

(***************************************************************************)
(* Properties of create_preferred_column (SpecPref)                        *)
(***************************************************************************)

\* C10: the new column is a copy of the earliest entry of the preference
\* list that is a column of the dataframe, whatever later entries are
\* present too, and the other columns are left as they were.
C10_FirstMatchWins ==
    pf_pc = "returned" =>
        \A i \in DOMAIN pf_prefs :
            (/\ pf_prefs[i] \in Range(pf_df.columns)
             /\ \A j \in 1..(i - 1) : pf_prefs[j] \notin Range(pf_df.columns))
            => /\ pf_out # PyFalse
               /\ pf_out.data[pf_new] = pf_df.data[pf_prefs[i]]
               /\ \A c \in Range(pf_df.columns) : pf_out.data[c] = pf_df.data[c]

\* C10's case: two entries of the list are columns with different cells, and
\* the new column holds the cells of the earlier one.
C10_Witness ==
    /\ pf_pc = "returned"
    /\ \E i, k \in DOMAIN pf_prefs :
         /\ i < k
         /\ \A j \in 1..(i - 1) : pf_prefs[j] \notin Range(pf_df.columns)
         /\ pf_prefs[i] \in Range(pf_df.columns)
         /\ pf_prefs[k] \in Range(pf_df.columns)
         /\ pf_df.data[pf_prefs[i]] # pf_df.data[pf_prefs[k]]
         /\ pf_out.data[pf_new] = pf_df.data[pf_prefs[i]]

(***************************************************************************)
(* Properties of clean_hours (SpecHours)                                   *)
(***************************************************************************)

\* Token x is k digits and nothing more, or k digits, a '.' or ':' and
\* anything after it.
HourForm(x, k) ==
    /\ k <= Len(x)
    /\ \A i \in 1..k : IsDigit(x[i])
    /\ Len(x) = k \/ x[k + 1] \in {".", ":"}

\* C12: a token of one or two digits, alone or followed by '.' or ':' and
\* anything, gives the two-character zero-padded hour followed by ":00:00".
C12_HourTokensCanonical ==
    fn_pc = "returned" =>
        \A k \in {1, 2} :
            HourForm(fn_in, k) =>
                /\ fn_out.err = "none"
                /\ fn_out.value = (IF k = 1 THEN <<"0", fn_in[1]>>
                                   ELSE <<fn_in[1], fn_in[2]>>)
                                  \o <<":", "0", "0", ":", "0", "0">>

\* C12's case: "09:45" gave "09:00:00".
C12_Witness ==
    /\ fn_pc = "returned"
    /\ fn_in = <<"0", "9", ":", "4", "5">>
    /\ fn_out.err = "none"
    /\ fn_out.value = <<"0", "9", ":", "0", "0", ":", "0", "0">>

\* C13: a token that is not one or two digits, alone or followed by '.' or
\* ':', makes clean_hours raise; it gives no time string.
C13_OtherTokensFail ==
    fn_pc = "returned" =>
        ((\A k \in {1, 2} : ~HourForm(fn_in, k)) => fn_out.err # "none")

(***************************************************************************)
(* Properties of clean_df (SpecClean)                                      *)
(***************************************************************************)

\* The raw dataframe clean_df was called on, and the one in its place after.
RawFrame == fn_in.bus.dfs[fn_in.df_name]
CleanedFrame == fn_out[1].bus.dfs[fn_in.df_name]

\* Some name of the preference list is a column of df.
Resolves(prefs, df) == \E i \in DOMAIN prefs : prefs[i] \in Range(df.columns)

\* C11: when no name of a preference list is among the raw columns, clean_df
\* raises and leaves no cleaned dataframe for that file.
C11_UnresolvableColumnFails ==
    fn_pc # "args" =>
        ((\/ ~Resolves(fn_in.bus.prefered_footfall_columns, RawFrame)
          \/ ~Resolves(fn_in.bus.prefered_location_columns, RawFrame))
         => /\ fn_out[1].err # "none"
            /\ CleanedFrame = RawFrame)

\* C11's case: a file with rows and with Date, Hour and LocationName but no
\* footfall column made clean_df raise.
C11_Witness ==
    /\ fn_pc = "returned"
    /\ Range(RawFrame.columns) = {"Date", "Hour", "LocationName", "BRCWeek"}
    /\ NRows(RawFrame) > 0
    /\ RawFrame.data["Hour"][1] = <<"9">>
    /\ RawFrame.data["Date"][1] = <<"2023-07-16">>
    /\ fn_out[1].err = "AttributeError"

\* C14: rows without an hour change nothing: clean_df ends as it does on the
\* same dataframe without those rows, with the same error or the same output,
\* so no such row is in the output and none makes the call fail.
C14_MissingHourRowsDropped ==
    (fn_pc # "args" /\ "Hour" \in Range(RawFrame.columns)) =>
        \E without \in {leeds_clean_df(DownloadedBus(DropNa(RawFrame, {"Hour"})),
                                       fn_in.df_name)} :
            /\ fn_out[1].err = without.err
            /\ fn_out[1].err = "none" => CleanedFrame = without.bus.dfs[fn_in.df_name]

\* C14's case: of two rows the first had no hour; clean_df returned the
\* second row alone.
C14_Witness ==
    /\ fn_pc = "returned"
    /\ fn_out[1].err = "none"
    /\ NRows(RawFrame) = 2
    /\ RawFrame.data["Hour"][1] = NaN
    /\ RawFrame.data["Hour"][2] = <<"9">>
    /\ NRows(CleanedFrame) = 1

\* The cell can be read: an hour clean_hours and %H accept, a date that
\* parses, or a missing value.
HourReads(cell) ==
    cell = NaN \/ \E k \in {1, 2} : HourForm(cell, k) /\ (k = 2 => HourValue(cell) <= 23)
DateReads(cell) == cell \in {NaN, <<"2023-07-16">>, <<"16/07/2023">>}

\* C15: no output row of clean_df misses city, footfall_location, timestamp
\* or total_footfall, and missing values make no call fail: when the columns
\* resolve and every hour and date that is there can be read, clean_df
\* returns.
C15_NoMissingCanonicalField ==
    fn_pc # "args" =>
        /\ fn_out[1].err = "none" =>
               \A i \in 1..NRows(CleanedFrame) :
                   \A c \in {"city", "footfall_location", "timestamp", "total_footfall"} :
                       CleanedFrame.data[c][i] \notin {NaN, NaT}
        /\ (/\ Resolves(fn_in.bus.prefered_footfall_columns, RawFrame)
            /\ Resolves(fn_in.bus.prefered_location_columns, RawFrame)
            /\ {"Hour", "Date"} \subseteq Range(RawFrame.columns)
            /\ \A i \in 1..NRows(RawFrame) :
                   /\ HourReads(RawFrame.data["Hour"][i])
                   /\ DateReads(RawFrame.data["Date"][i]))
           => fn_out[1].err = "none"

\* C15's case: of two rows the first had no Count; clean_df returned the
\* second row alone.
C15_Witness ==
    /\ fn_pc = "returned"
    /\ fn_out[1].err = "none"
    /\ NRows(RawFrame) = 2
    /\ "Unnamed: 0" \notin Range(RawFrame.columns)
    /\ RawFrame.data["Count"][1] = NaN
    /\ RawFrame.data["Hour"][1] = <<"9">>
    /\ RawFrame.data["Date"][1] = <<"2023-07-16">>
    /\ RawFrame.data["LocationName"][1] = <<"Briggate">>
    /\ NRows(CleanedFrame) = 1
    /\ CleanedFrame.data["total_footfall"][1] = <<"7">>

\* C19: clean_df changes nothing it was given: the dictionary and the raw
\* dataframe in it are after the call what they were before, and calling it
\* again with them gives the same again.
C19_CleanDfIsPure ==
    /\ fn_pc # "args" => fn_out[1].bus = fn_in.bus
    /\ fn_pc = "returned again" => fn_out[2] = fn_out[1]

(***************************************************************************)
(* Properties of process_to_df (SpecRows)                                  *)
(***************************************************************************)

\* The metric of an API entry as the pipeline reads it.
VolumeOf(entry, name) ==
    IF fn_in.pipeline = "historic" THEN entry[name]["1h"] ELSE entry[name]

\* C16: process_to_df makes one row of every entry, each with a number for
\* rain and for snow: the entry's own where it has the metric, 0 where it
\* leaves it out; an entry that leaves a metric out makes no call fail.
C16_OptionalMetricsDefaultToZero ==
    fn_pc = "returned" =>
        /\ fn_out.err = "none" =>
               /\ Len(fn_out.bus.df) = Len(fn_in.list)
               /\ \A i \in DOMAIN fn_in.list :
                      \A name \in {"rain", "snow"} :
                          /\ name \in DOMAIN fn_out.bus.df[i]
                          /\ fn_out.bus.df[i][name] \in Nat
                          /\ fn_out.bus.df[i][name] =
                                 IF name \in DOMAIN fn_in.list[i]
                                 THEN VolumeOf(fn_in.list[i], name) ELSE 0
        /\ fn_out.err # "none" =>
               \E i \in DOMAIN fn_in.list : \E name \in {"rain", "snow"} :
                   name \in DOMAIN fn_in.list[i]

\* C16's case: of two hourly entries the first had neither rain nor snow and
\* the second had both; the rows hold 0 and the reported volumes.
C16_Witness ==
    /\ fn_pc = "returned"
    /\ fn_in.pipeline = "historic"
    /\ Len(fn_in.list) = 2
    /\ DOMAIN fn_in.list[1] = {"dt", "temp"}
    /\ DOMAIN fn_in.list[2] = {"dt", "temp", "rain", "snow"}
    /\ fn_out.err = "none"
    /\ fn_out.bus.df[1].rain = 0 /\ fn_out.bus.df[1].snow = 0
    /\ fn_out.bus.df[2].rain = 13 /\ fn_out.bus.df[2].snow = 13

(***************************************************************************)
(* Properties of the writes of a flow run (SpecExec)                       *)
(***************************************************************************)

\* The step makes table t or changes its rows.
TableChanged(t) ==
    /\ t \in DOMAIN warehouse'
    /\ t \notin DOMAIN warehouse \/ warehouse'[t] # warehouse[t]

\* The table <configured table name>_yyyymmdd of the run's date.
DatedPartition(d) ==
    TableId(HistoricSettings, HistoricSettings.bq_tablename \o <<Yyyymmdd(d)>>)

\* C17: when the merge of a historic run is the next stage, its dated
\* partition holds exactly the rows of the run's dataframe, whatever it held
\* before, and no step of a historic run changes the partition of another
\* date.
C17_ShardInDatedPartitionBeforeMerge ==
    /\ []((pipeline = "historic" /\ stage_idx = 8) =>
              /\ DatedPartition(data_bus.date) \in DOMAIN warehouse
              /\ warehouse[DatedPartition(data_bus.date)] = SeqToBag(data_bus.df))
    /\ [][pipeline = "historic" =>
              \A d \in Dates : TableChanged(DatedPartition(d)) => d = data_bus.date]_vars

\* C17's case: a re-run for a date whose partition and the other date's
\* held rows of earlier runs stands before its merge.
C17_Witness ==
    /\ pipeline = "historic"
    /\ stage_idx = 8
    /\ task_state = "Idle"
    /\ data_bus.df # <<>>
    /\ {DatedPartition(d) : d \in Dates} \subseteq DOMAIN warehouse
    /\ warehouse[DatedPartition(data_bus.date)] = SeqToBag(data_bus.df)
    /\ \E d \in Dates \ {data_bus.date} :
           warehouse[DatedPartition(d)] = SetToBag({OldWeatherRow})

\* The rows the current stage writes to its table.
WrittenRows ==
    CASE CurrentStage = "load_df_to_bigquery" -> SeqToBag(data_bus.df)
      [] CurrentStage = "update_historic_table" ->
           MergeQuery(warehouse[QueryLatestId(data_bus.date)], warehouse[QueryHistoricId])
      [] CurrentStage = "leeds.load_df_to_bigquery" ->
           SetToBag(UNION {Range(FrameRows(data_bus.dfs[f])) : f \in DOMAIN data_bus.dfs})
      [] CurrentStage = "york.load_df_to_bigquery" -> SetToBag({data_bus.df.state})

\* C18: a table that a step of a flow run makes or changes holds after the
\* step exactly the rows the stage wrote, none of the rows it held before.
C18_WritesReplaceTheTable ==
    [][\A t \in DOMAIN warehouse' : TableChanged(t) => warehouse'[t] = WrittenRows]_vars

\* C18's case: a forecast run over the tables of earlier runs completed and
\* its table holds the rows of this run only.
C18_Witness ==
    /\ pipeline = "forecast"
    /\ flow_state = "Completed"
    /\ data_bus.df # <<>>
    /\ StoreTableId \in DOMAIN warehouse
    /\ warehouse[StoreTableId] = SetToBag({OldWeatherRow})
    /\ warehouse[TableId(ForecastSettings, ForecastSettings.bq_tablename)]
           = SeqToBag(data_bus.df)
    /\ OldWeatherRow \notin Range(data_bus.df)

\* C20: a step in which a task raises or the run fails removes no bucket
\* object and leaves every table as it was; a historic run that failed at
\* its merge still has the dated partition it wrote.
C20_NoRollbackOnAbort ==
    /\ [][(task_state' = "Raised" \/ flow_state' = "Failed") =>
              /\ bucket \subseteq bucket'
              /\ \A t \in DOMAIN warehouse :
                     t \in DOMAIN warehouse' /\ warehouse'[t] = warehouse[t]]_vars
    /\ []((flow_state = "Failed" /\ pipeline = "historic" /\ stage_idx = 8) =>
              /\ DatedPartition(data_bus.date) \in DOMAIN warehouse
              /\ warehouse[DatedPartition(data_bus.date)] = SeqToBag(data_bus.df)
              /\ Cardinality(bucket) = 2)

\* C20's case: a historic run failed at its merge; the dated partition and
\* the two bucket objects it wrote are there.
C20_Witness ==
    /\ flow_state = "Failed"
    /\ pipeline = "historic"
    /\ stage_idx = 8
    /\ data_bus.df # <<>>
    /\ DatedPartition(data_bus.date) \in DOMAIN warehouse
    /\ warehouse[DatedPartition(data_bus.date)] = SeqToBag(data_bus.df)
    /\ Cardinality(bucket) = 2

(***************************************************************************)
(* Properties of the footfall flows and of the data bus (SpecExec)         *)
(***************************************************************************)

\* The stage of the running flow named name has been called.
Called(name) ==
    \E i \in DOMAIN calls : pipeline_stages(pipeline)[i] = name /\ calls[i] > 0

\* The bucket holds an object for file f in the folder the settings name
\* under key.
InFolder(settings, key, f) ==
    \E o \in bucket : o.path = <<settings.gcp_bucket, settings[key], f>>

\* C21: in a Leeds run every downloaded file is in the raw folder of the
\* bucket once cleaning has been called, and in the processed folder once
\* the run has completed.
C21_LeedsRawCopiedBeforeCleaning ==
    pipeline = "leeds" =>
        /\ Called("leeds.clean_all_dfs") =>
               \A f \in Range(LeedsFiles) : InFolder(LeedsSettings, "gcp_bucket_folder_raw", f)
        /\ flow_state = "Completed" =>
               \A f \in Range(LeedsFiles) :
                   InFolder(LeedsSettings, "gcp_bucket_folder_processed", f)

\* C22: what a stage returned is a bus that has every key of the bus the
\* stage was called with.
C22_BusMutatedAdditively ==
    \A i \in DOMAIN returned :
        /\ returned[i] # None
        /\ DOMAIN received[i] \subseteq DOMAIN returned[i]

\* The stage of the running flow named name has returned.
Returned(name) ==
    \E i \in DOMAIN returned : pipeline_stages(pipeline)[i] = name

\* The content of a bucket object is cleaned data: the four output columns
\* of clean_df.
Cleaned(content) ==
    IF pipeline = "york" THEN content = "clean"
    ELSE Range(content.columns) = {"city", "footfall_location", "timestamp", "total_footfall"}

\* C23: in a footfall run, once download_data has returned dfs_raw is True
\* exactly until the cleaning stage has returned, the raw folder of the
\* bucket holds uncleaned data only and the processed folder cleaned data
\* only.
C23_RawFlagSelectsFolder ==
    pipeline \in {"leeds", "york"} =>
        /\ Returned(IF pipeline = "leeds" THEN "leeds.download_data" ELSE "york.download_data")
           => /\ "dfs_raw" \in DOMAIN data_bus
              /\ data_bus.dfs_raw = TRUE
                 <=> ~Returned(IF pipeline = "leeds" THEN "leeds.clean_all_dfs"
                               ELSE "york.clean_df")
        /\ \A o \in bucket :
               /\ o.path[2] = "raw" => ~Cleaned(o.content)
               /\ o.path[2] = "processed" => Cleaned(o.content)

\* C23's case: a York run wrote before cleaning and after it; the raw csv
\* is in the raw folder and the cleaned one in the processed folder.
C23_Witness ==
    /\ pipeline = "york"
    /\ flow_state = "Completed"
    /\ data_bus.dfs_raw = FALSE
    /\ bucket = {[path |-> <<"bucket", "raw", "york.csv">>, content |-> "raw"],
                 [path |-> <<"bucket", "processed", "york.csv">>, content |-> "clean"]}

\* C24: an attempt of a retryable stage that raises leaves the bus as it
\* was, and every retry of a stage starts from the bus its first attempt was
\* called with.
C24_FailedAttemptLeavesBus ==
    [][/\ (task_state' = "Raised" /\ Retries(CurrentStage) > 0) => data_bus' = data_bus
       /\ (task_state = "Raised" /\ task_state' = "Running")
          => data_bus = received[stage_idx]]_vars

(***************************************************************************)
(* Properties of the configured historic run (SpecConfig)                  *)
(***************************************************************************)

\* C25: after a historic run that completed, under any settings, the table
\* bq_complete_history of the settings existed before the run and holds the
\* merge of the dated table the run loaded, bq_tablename_yyyymmdd of the
\* settings, with the rows it held itself before the run.
C25_MergeReadsTheConfiguredTables ==
    (fn_pc = "returned" /\ fn_out.err = "none") =>
        LET shard == TableId(fn_in.settings,
                             fn_in.settings.bq_tablename \o <<Yyyymmdd(fn_in.date)>>)
            store == TableId(fn_in.settings, fn_in.settings.bq_complete_history)
        IN /\ store \in DOMAIN fn_out.before
           /\ warehouse[store] = MergeQuery(warehouse[shard], fn_out.before[store])

(***************************************************************************)
(* Rows clean_df keeps (SpecClean)                                         *)
(***************************************************************************)

\* The raw column a preference list resolves to in df.
ResolvedSource(prefs, df) ==
    prefs[CHOOSE i \in DOMAIN prefs :
              /\ prefs[i] \in Range(df.columns)
              /\ \A j \in 1..(i - 1) : prefs[j] \notin Range(df.columns)]

\* Row i of the raw dataframe has an hour that reads, a date, a location and
\* a footfall value.
HasCanonicalFields(i) ==
    /\ RawFrame.data["Hour"][i] # NaN
    /\ RawFrame.data["Date"][i] # NaN
    /\ RawFrame.data[ResolvedSource(fn_in.bus.prefered_location_columns, RawFrame)][i] # NaN
    /\ RawFrame.data[ResolvedSource(fn_in.bus.prefered_footfall_columns, RawFrame)][i] # NaN

\* C26: when clean_df returns, the output has a row for every raw row with
\* an hour, a date, a location and a footfall value, whatever its other
\* columns hold.
C26_OnlyCanonicalGapsDropRows ==
    (fn_pc # "args" /\ fn_out[1].err = "none") =>
        NRows(CleanedFrame) >= Cardinality({i \in 1..NRows(RawFrame) : HasCanonicalFields(i)})

(***************************************************************************)
(* Properties of holidays.process_to_df (SpecHolidays)                     *)
(***************************************************************************)

\* The holidays of all yearly responses, in order.
RECURSIVE AllDays(_, _)
AllDays(responses, i) ==
    IF i > Len(responses) THEN <<>> ELSE responses[i] \o AllDays(responses, i + 1)

\* The holiday is for the whole country, for England among others, or is
\* Saint Patrick's Day.
ForEngland(day) ==
    \/ day.counties = NullCounties
    \/ "GB-ENG" \in day.counties
    \/ day.name = "Saint Patrick's Day"

\* C27: the dataframe of process_to_df has, in the order of the responses,
\* one row with the date and the local name of every holiday that is for
\* the whole country, for England among others or Saint Patrick's Day, and
\* no row for any other holiday.
C27_HolidaysForEnglandKept ==
    fn_pc = "returned" =>
        /\ fn_out.err = "none"
        /\ \E kept \in {SelectSeq(AllDays(fn_in, 1), ForEngland)} :
               fn_out.bus.df = [k \in DOMAIN kept |->
                                   [date |-> kept[k].date, name |-> kept[k].localName]]

\* C27's case: of the two holidays of a year, Saint Patrick's Day of
\* Northern Ireland was kept under its local name and a Scottish holiday
\* was left out.
C27_Witness ==
    /\ fn_pc = "returned"
    /\ Len(fn_in) = 1
    /\ Len(fn_in[1]) = 2
    /\ fn_in[1][1].name = "Saint Patrick's Day" /\ fn_in[1][1].counties = {"GB-NIR"}
    /\ fn_in[1][1].localName = "St Patrick's Day"
    /\ fn_in[1][2].name = "Summer Bank Holiday" /\ fn_in[1][2].counties = {"GB-SCT"}
    /\ fn_out.bus.df = <<[date |-> fn_in[1][1].date, name |-> "St Patrick's Day"]>>

====
